---- MODULE Spec2Model ----
(***************************************************************************)
(* Model of sktime/transformers/panel/compose.py: ColumnTransformer,       *)
(* ColumnConcatenator, the row transformers and make_row_transformer.      *)
(*                                                                         *)
(* Containers (numpy arrays, scipy sparse matrices, pandas objects) are    *)
(* modelled by their kind and shape; panels by their form and size.        *)
(***************************************************************************)
EXTENDS Integers, Sequences, FiniteSets, TLC

VARIABLES
    ct_cfg,             \* ColumnTransformer constructor arguments
    ct_is_fitted,       \* ColumnTransformer._is_fitted
    ct_transformers_,   \* ColumnTransformer.transformers_ (<<>> until set)
    ct_sparse_output_,  \* ColumnTransformer.sparse_output_ ("unset" until set)
    ct_fit_done,        \* history: some fit / fit_transform returned normally
    ct_last             \* the last call on the ColumnTransformer and its outcome

ct_vars == <<ct_cfg, ct_is_fitted, ct_transformers_, ct_sparse_output_,
             ct_fit_done, ct_last>>

VARIABLES
    cc_is_fitted,       \* ColumnConcatenator._is_fitted
    cc_last             \* the last call on the ColumnConcatenator

cc_vars == <<cc_is_fitted, cc_last>>

VARIABLES
    rt_obj,             \* the row transformer constructed, NoObject before
    rt_is_fitted,       \* its _is_fitted
    rt_transformer_,    \* its transformer_: the clones of the last transform
    rt_template_fitted, \* whether its template transformer was ever fitted
    rt_last             \* the last call of the row transformer API

rt_vars == <<rt_obj, rt_is_fitted, rt_transformer_, rt_template_fitted, rt_last>>

vars == <<ct_vars, cc_vars, rt_vars>>

----------------------------------------------------------------------------
(* Bounds *)

MaxEntries == 2     \* entries in ColumnTransformer.transformers
MaxRows == 2        \* instances in an input of the ColumnTransformer
MaxInstances == 2   \* instances in a panel
MaxVars == 2        \* variables in a panel
MaxLen == 5         \* time points in a series
MaxWidth == 2       \* values a template transformer returns for an instance

----------------------------------------------------------------------------
(* Values *)

\* Forms of an input X: a nested DataFrame, a 3D numpy array, and a plain
\* (non-nested) DataFrame, which check_X rejects.
XForms == {"nested", "numpy3d", "tabular"}
\* The inputs of a call: each form with a single instance and with MaxRows.
Inputs == [form : XForms, rows : {1, MaxRows}]

\* What an entry's transformer is: a sentinel, or an estimator named after
\* the container its transform returns ("flat" returns a 1-D ndarray).  An
\* entry selects one column, or none (the second component).
Sentinels == {"drop", "passthrough"}
Estimators == {"dense", "sparse", "series", "flat"}
EntryChoices ==
    {<<t, 1>> : t \in Sentinels \cup Estimators} \cup {<<"dense", 0>>}

\* The remainder policy and the number of columns no entry selects.
RemainderChoices == {<<"drop", 0>>, <<"drop", 1>>, <<"passthrough", 1>>}

EntryName(i) == IF i = 1 THEN "t1" ELSE IF i = 2 THEN "t2" ELSE "t3"

\* sparse_threshold in tenths (the default is 0.3)
SparseThresholds == {3, 10}

\* A container: its kind, shape and number of stored entries; src is the name
\* of the entry whose transformer returned it ("" for a stacked result).
NoResult ==
    [kind |-> "none", ndim |-> 0, rows |-> 0, cols |-> 0, nnz |-> 0, src |-> ""]
Container(kind, ndim, rows, cols, nnz) ==
    [kind |-> kind, ndim |-> ndim, rows |-> rows, cols |-> cols, nnz |-> nnz,
     src |-> ""]

NoneSeen == "none"

----------------------------------------------------------------------------
(* Collaborators of the module *)

\* check_X(X, coerce_to_pandas=True): a plain DataFrame is rejected, a 3D
\* array becomes a nested DataFrame, a nested DataFrame is returned as is.
check_X_raises(x) == x.form = "tabular"
check_X_pandas(x) == [x EXCEPT !.form = "nested"]

\* BaseTransformer.check_is_fitted: raises NotFittedError unless _is_fitted.
check_is_fitted_raises(is_fitted) == ~is_fitted

\* The output of one entry's (fit_)transform on the columns selected from x.
\* 'passthrough' returns its input: DataFrame columns of a DataFrame, a 3-D
\* slice of a 3D array.
EntryContainer(e, x) ==
    CASE e.trans = "passthrough" ->
            IF x.form = "numpy3d"
            THEN Container("ndarray", 3, x.rows, e.ncols, x.rows * e.ncols)
            ELSE Container("DataFrame", 2, x.rows, e.ncols, x.rows * e.ncols)
      [] e.trans = "dense"  -> Container("ndarray", 2, x.rows, e.ncols, x.rows * e.ncols)
      [] e.trans = "sparse" -> Container("sparse", 2, x.rows, e.ncols, 0)
      [] e.trans = "series" -> Container("Series", 1, x.rows, 1, x.rows)
      [] e.trans = "flat"   -> Container("ndarray", 1, x.rows, 1, x.rows)
      [] OTHER -> NoResult

EntryOutput(e, x) == [EntryContainer(e, x) EXCEPT !.src = e.name]

----------------------------------------------------------------------------
(* Panels and the converters of sktime.utils.data_processing *)

\* The values of a panel of n instances, d variables and series of length t:
\* the value of instance i, variable v at time k is <<i, v, k>>.
PanelData(n, d, t) ==
    [i \in 1..n |-> [v \in 1..d |-> [k \in 1..t |-> <<i, v, k>>]]]

\* Panels as a nested DataFrame (a cell per instance and variable, holding a
\* series) and as a 3D array (instance x variable x time).
Panels ==
    {[form |-> f, n |-> n, d |-> d, t |-> t, data |-> PanelData(n, d, t)] :
        f \in {"nested", "numpy3d"}, n \in 1..MaxInstances, d \in 1..MaxVars,
        t \in 1..MaxLen}

NoArray == [kind |-> "none", rows |-> <<>>]

RECURSIVE ConcatCells(_)
ConcatCells(cells) ==
    IF cells = <<>> THEN <<>> ELSE Head(cells) \o ConcatCells(Tail(cells))

\* from_nested_to_2d_array: a row per instance; the series of the cells of
\* the row, one variable after the other.
from_nested_to_2d_array(X) ==
    IF X.form # "nested" THEN [outcome |-> "TypeError", value |-> NoArray]
    ELSE [outcome |-> "ok",
          value |-> [kind |-> "2d",
                     rows |-> [i \in 1..X.n |-> ConcatCells(X.data[i])]]]

\* from_3d_numpy_to_2d_array: X.reshape(n, d * t).
from_3d_numpy_to_2d_array(X) ==
    IF X.form # "numpy3d" THEN [outcome |-> "TypeError", value |-> NoArray]
    ELSE [outcome |-> "ok",
          value |-> [kind |-> "2d",
                     rows |-> [i \in 1..X.n |->
                                [c \in 1..(X.d * X.t) |->
                                    X.data[i][((c - 1) \div X.t) + 1]
                                             [((c - 1) % X.t) + 1]]]]]

\* from_2d_array_to_nested: a nested DataFrame of one column, the cell of
\* row i holding row i of the array as a series.
from_2d_array_to_nested(r) ==
    IF r.outcome # "ok" THEN r
    ELSE [outcome |-> "ok",
          value |-> [kind |-> "nested",
                     rows |-> [i \in DOMAIN r.value.rows |-> <<r.value.rows[i]>>]]]

----------------------------------------------------------------------------
(* ColumnConcatenator *)

ConcatCall(op, X, r) ==
    [op |-> op, X |-> X, outcome |-> r.outcome, result |-> r.value]

\* Mutant of Concatenate: a nested DataFrame is returned as it is, without
\* tabularizing it.
ConcatenateNot(X) ==
    IF X.form = "nested"
    THEN [outcome |-> "ok", value |-> [kind |-> "nested", rows |-> X.data]]
    ELSE from_2d_array_to_nested(from_3d_numpy_to_2d_array(X))

\* ColumnConcatenator.transform, past the fitted check and check_X, which
\* returns a well-formed panel as it is: tabularize all columns, then
\* detabularize them into a single column.
Concatenate(X) ==
    IF X.form = "nested"
    THEN from_2d_array_to_nested(from_nested_to_2d_array(X))
    ELSE from_2d_array_to_nested(from_3d_numpy_to_2d_array(X))

ConcatenatorTransform(X) ==
    /\ cc_last' =
          IF check_is_fitted_raises(cc_is_fitted)
          THEN ConcatCall("transform", X,
                          [outcome |-> "NotFittedError", value |-> NoArray])
          ELSE ConcatCall("transform", X, Concatenate(X))
    /\ UNCHANGED cc_is_fitted

\* BaseTransformer.fit, inherited: nothing is learned, the object is marked
\* fitted.
ConcatenatorFit(X) ==
    /\ cc_is_fitted' = TRUE
    /\ cc_last' = ConcatCall("fit", X, [outcome |-> "ok", value |-> NoArray])

concatenator_fit ==
    \E X \in Panels : ConcatenatorFit(X) /\ UNCHANGED <<ct_vars, rt_vars>>
concatenator_transform ==
    \E X \in Panels : ConcatenatorTransform(X) /\ UNCHANGED <<ct_vars, rt_vars>>

NoConcatCall ==
    [op |-> "none", X |-> CHOOSE X \in Panels : TRUE, outcome |-> "none",
     result |-> NoArray]

NewColumnConcatenator ==
    /\ cc_is_fitted = FALSE
    /\ cc_last = NoConcatCall

----------------------------------------------------------------------------
(* Row transformers *)

Variants == {"series-to-series", "series-to-primitives"}

\* A template transformer: the base classes it is an instance of (caps), and
\* how many values its fit_transform returns for an instance: one per
\* variable, a constant number, or a number that depends on the instance's
\* data.
Widths ==
    {[mode |-> m, k |-> 0] : m \in {"per_variable", "data"}}
        \cup {[mode |-> "constant", k |-> k] : k \in 1..MaxWidth}
Templates == [caps : SUBSET Variants, width : Widths]

\* A panel for the row transformers: d variables, and for each instance the
\* part of its data that a data-dependent template's output width follows.
RECURSIVE SeqsUpTo(_, _)
SeqsUpTo(S, n) ==
    IF n = 0 THEN {<<>>}
    ELSE SeqsUpTo(S, n - 1)
            \cup {Append(q, e) : q \in {r \in SeqsUpTo(S, n - 1) : Len(r) = n - 1},
                                 e \in S}

RowPanels ==
    [d : 1..MaxVars, inst : SeqsUpTo(1..MaxWidth, MaxInstances) \ {<<>>}]

NoObject ==
    [variant |-> "none",
     transformer |-> [caps |-> {}, width |-> [mode |-> "constant", k |-> 1]],
     check_transformer |-> FALSE]
NoTable == [kind |-> "none", rows |-> <<>>]
NoArg == [none |-> TRUE]

RowCall(op, arg, outcome, result) ==
    [op |-> op, arg |-> arg, outcome |-> outcome, result |-> result]

\* _RowTransformer.__init__: the arguments are stored, nothing is checked.
Construct(variant, transformer, check_transformer) ==
    /\ rt_obj' = [variant |-> variant, transformer |-> transformer,
                  check_transformer |-> check_transformer]
    /\ rt_is_fitted' = FALSE
    /\ rt_transformer_' = <<>>
    /\ rt_template_fitted' = FALSE

\* Mutant of _check_transformer_raises: the check_transformer flag is ignored.
_check_transformer_unconditional(obj) == obj.variant \notin obj.transformer.caps

\* _RowTransformer._check_transformer: raises TypeError when checking is on
\* and the template is no instance of the variant's _valid_transformer_type.
_check_transformer_raises(obj) ==
    obj.check_transformer /\ obj.variant \notin obj.transformer.caps

\* clone(self.transformer) for every instance: unfitted copies.
Clones(X) == [i \in 1..Len(X.inst) |-> [fit_on |-> 0]]

\* Mutant of Instance: every clone is handed the first instance.
InstanceFirst(X, i) == [index |-> 1, data |-> X.inst[1], d |-> X.d]

\* X[i].T, the instance handed to clone i, and what the clone's
\* fit_transform returns for it: values k = 1..width, each computed from that
\* instance.
Instance(X, i) == [index |-> i, data |-> X.inst[i], d |-> X.d]

Width(transformer, instance) ==
    CASE transformer.width.mode = "per_variable" -> instance.d
      [] transformer.width.mode = "data" -> instance.data
      [] OTHER -> transformer.width.k

clone_fit_transform(transformer, instance) ==
    [k \in 1..Width(transformer, instance) |-> [src |-> instance.index, k |-> k]]

\* Xt[i] = values, Xt being np.zeros((N, D)): as many values as variables
\* fill the row, a single value is broadcast over it, anything else cannot
\* be broadcast and raises ValueError.
RowAssignable(d, values) == Len(values) = d \/ Len(values) = 1
RowAssigned(d, values) ==
    IF Len(values) = d THEN values ELSE [c \in 1..d |-> values[1]]

\* The loop of SeriesToPrimitivesRowTransformer.transform: the instances in
\* index order, up to the first whose values cannot be assigned.
PrimitivesLoop(transformer, X) ==
    LET n == Len(X.inst)
        out(i) == clone_fit_transform(transformer, Instance(X, i))
        failing == {i \in 1..n : ~RowAssignable(X.d, out(i))}
        stop == IF failing = {} THEN n
                ELSE CHOOSE i \in failing : \A j \in failing : i <= j
    IN [outcome |-> IF failing = {} THEN "ok" ELSE "ValueError",
        clones |-> [i \in DOMAIN Clones(X) |->
                      IF i <= stop
                      THEN [Clones(X)[i] EXCEPT !.fit_on = Instance(X, i).index]
                      ELSE Clones(X)[i]],
        result |-> IF failing = {}
                   THEN [kind |-> "DataFrame",
                         rows |-> [i \in 1..n |-> RowAssigned(X.d, out(i))]]
                   ELSE NoTable]

\* The loop of SeriesToSeriesRowTransformer.transform and its pd.concat: the
\* output of every instance becomes one row of a nested DataFrame, with a
\* column per variable of the output; the rows are stacked in order, and
\* rows of fewer columns are filled with NaN.
MaxOf(S) == CHOOSE m \in S : \A k \in S : k <= m

SeriesLoop(transformer, X) ==
    LET n == Len(X.inst)
        out(i) == clone_fit_transform(transformer, Instance(X, i))
        ncols == MaxOf({Len(out(i)) : i \in 1..n})
    IN [outcome |-> "ok",
        clones |-> [i \in DOMAIN Clones(X) |->
                      [Clones(X)[i] EXCEPT !.fit_on = Instance(X, i).index]],
        result |-> [kind |-> "nested",
                    rows |-> [i \in 1..n |->
                                [c \in 1..ncols |->
                                    IF c <= Len(out(i)) THEN out(i)[c]
                                    ELSE [src |-> i, k |-> 0]]]]]

\* transform of either variant: _prepare (fitted check, type check, clones),
\* then the variant's loop.
RowTransform(X) ==
    IF check_is_fitted_raises(rt_is_fitted)
    THEN /\ rt_last' = RowCall("transform", X, "NotFittedError", NoTable)
         /\ UNCHANGED <<rt_obj, rt_is_fitted, rt_transformer_,
                        rt_template_fitted>>
    ELSE IF _check_transformer_raises(rt_obj)
    THEN /\ rt_last' = RowCall("transform", X, "TypeError", NoTable)
         /\ UNCHANGED <<rt_obj, rt_is_fitted, rt_transformer_,
                        rt_template_fitted>>
    ELSE LET r == IF rt_obj.variant = "series-to-primitives"
                  THEN PrimitivesLoop(rt_obj.transformer, X)
                  ELSE SeriesLoop(rt_obj.transformer, X)
         IN /\ rt_transformer_' = r.clones
            /\ rt_last' = RowCall("transform", X, r.outcome, r.result)
            /\ UNCHANGED <<rt_obj, rt_is_fitted, rt_template_fitted>>

\* BaseTransformer.fit, inherited: marks the row transformer fitted, whatever
\* X is.
RowFit ==
    /\ rt_is_fitted' = TRUE
    /\ rt_last' = RowCall("fit", NoArg, "ok", NoTable)
    /\ UNCHANGED <<rt_obj, rt_transformer_, rt_template_fitted>>

\* make_row_transformer(transformer, transformer_type, **kwargs): the variant
\* chosen, or the error raised.  transformer_type "None" stands for None.
TransformerTypes == {"None", "series-to-series", "series-to-primitives", "other"}

\* Mutant of make_row_transformer: transformer_type is not validated, so an
\* unknown value falls through to the series-to-primitives variant.
make_row_transformer_unvalidated(transformer, transformer_type) ==
    IF transformer_type # "None"
    THEN [outcome |-> "ok",
          variant |-> IF transformer_type = "series-to-series"
                      THEN "series-to-series" ELSE "series-to-primitives"]
    ELSE IF "series-to-series" \in transformer.caps
         THEN [outcome |-> "ok", variant |-> "series-to-series"]
         ELSE IF "series-to-primitives" \in transformer.caps
         THEN [outcome |-> "ok", variant |-> "series-to-primitives"]
         ELSE [outcome |-> "TypeError", variant |-> "none"]

make_row_transformer(transformer, transformer_type) ==
    IF transformer_type # "None"
    THEN IF transformer_type \notin Variants
         THEN [outcome |-> "ValueError", variant |-> "none"]
         ELSE [outcome |-> "ok", variant |-> transformer_type]
    ELSE IF "series-to-series" \in transformer.caps
         THEN [outcome |-> "ok", variant |-> "series-to-series"]
         ELSE IF "series-to-primitives" \in transformer.caps
         THEN [outcome |-> "ok", variant |-> "series-to-primitives"]
         ELSE [outcome |-> "TypeError", variant |-> "none"]

MakeRowTransformer(transformer, transformer_type, check_transformer) ==
    LET m == make_row_transformer(transformer, transformer_type)
        arg == [transformer |-> transformer, transformer_type |-> transformer_type,
                check_transformer |-> check_transformer]
    IN IF m.outcome = "ok"
       THEN /\ Construct(m.variant, transformer, check_transformer)
            /\ rt_last' = RowCall("make_row_transformer", arg, "ok", NoTable)
       ELSE /\ rt_last' = RowCall("make_row_transformer", arg, m.outcome, NoTable)
            /\ UNCHANGED <<rt_obj, rt_is_fitted, rt_transformer_,
                           rt_template_fitted>>

row_init ==
    /\ rt_obj = NoObject
    /\ \E v \in Variants, tr \in Templates, chk \in BOOLEAN :
          /\ Construct(v, tr, chk)
          /\ rt_last' = RowCall("__init__", NoArg, "ok", NoTable)
    /\ UNCHANGED <<ct_vars, cc_vars>>

row_make ==
    /\ rt_obj = NoObject
    /\ \E tr \in Templates, ty \in TransformerTypes, chk \in BOOLEAN :
          MakeRowTransformer(tr, ty, chk)
    /\ UNCHANGED <<ct_vars, cc_vars>>

row_fit ==
    /\ rt_obj # NoObject
    /\ RowFit
    /\ UNCHANGED <<ct_vars, cc_vars>>

row_transform ==
    /\ rt_obj # NoObject
    /\ \E X \in RowPanels : RowTransform(X)
    /\ UNCHANGED <<ct_vars, cc_vars>>

NoRowTransformer ==
    /\ rt_obj = NoObject
    /\ rt_is_fitted = FALSE
    /\ rt_transformer_ = <<>>
    /\ rt_template_fitted = FALSE
    /\ rt_last = RowCall("none", NoArg, "none", NoTable)

----------------------------------------------------------------------------
(* Stacking functions of numpy, scipy.sparse and pandas, as _hstack uses them *)

RECURSIVE SumCols(_)
SumCols(Xs) == IF Xs = <<>> THEN 0 ELSE Head(Xs).cols + SumCols(Tail(Xs))

\* np.atleast_1d of an entry: a sparse matrix becomes a 1-D object array of a
\* single element, a Series a 1-D array, a DataFrame a 2-D array.
ArrayNdim(X) == IF X.kind \in {"sparse", "Series"} THEN 1 ELSE X.ndim
ArrayLen(X) == IF X.kind = "sparse" THEN 1 ELSE X.rows

RECURSIVE SumLen(_)
SumLen(Xs) == IF Xs = <<>> THEN 0 ELSE ArrayLen(Head(Xs)) + SumLen(Tail(Xs))

\* np.hstack(Xs): all arrays must have the same number of dimensions; 1-D
\* arrays are joined end to end, 2-D arrays side by side.
np_hstack(Xs) ==
    LET dims == {ArrayNdim(Xs[i]) : i \in DOMAIN Xs} IN
    IF Cardinality(dims) # 1
    THEN [outcome |-> "ValueError", result |-> NoResult]
    ELSE IF dims = {1}
    THEN [outcome |-> "ok",
          result |-> Container("ndarray", 1, SumLen(Xs), 1, SumLen(Xs))]
    ELSE [outcome |-> "ok",
          result |-> Container("ndarray", 2, Xs[1].rows, SumCols(Xs),
                               Xs[1].rows * SumCols(Xs))]

\* sparse.hstack(Xs).tocsr(): every block is made a 2-D matrix (a Series of
\* length n becomes 1 x n) and the blocks must agree on the number of rows.
BlockRows(X) == IF X.kind = "Series" THEN 1 ELSE X.rows
BlockCols(X) == IF X.kind = "Series" THEN X.rows ELSE X.cols

RECURSIVE SumBlockCols(_)
SumBlockCols(Xs) ==
    IF Xs = <<>> THEN 0 ELSE BlockCols(Head(Xs)) + SumBlockCols(Tail(Xs))

RECURSIVE SumNnz(_)
SumNnz(Xs) == IF Xs = <<>> THEN 0 ELSE Head(Xs).nnz + SumNnz(Tail(Xs))

sparse_hstack(Xs) ==
    IF Cardinality({BlockRows(Xs[i]) : i \in DOMAIN Xs}) # 1
    THEN [outcome |-> "ValueError", result |-> NoResult]
    ELSE [outcome |-> "ok",
          result |-> Container("sparse", 2, BlockRows(Xs[1]), SumBlockCols(Xs),
                               SumNnz(Xs))]

\* pd.concat(Xs, axis="columns"): only Series and DataFrame objects are valid.
pd_concat(Xs) ==
    IF \E i \in DOMAIN Xs : Xs[i].kind \notin {"Series", "DataFrame"}
    THEN [outcome |-> "TypeError", result |-> NoResult]
    ELSE [outcome |-> "ok",
          result |-> Container("DataFrame", 2, Xs[1].rows, SumCols(Xs),
                               Xs[1].rows * SumCols(Xs))]

----------------------------------------------------------------------------
(* ColumnTransformer *)

\* ColumnTransformer._hstack
Types(Xs) == {Xs[i].kind : i \in DOMAIN Xs}

_hstack(Xs, sparse_output_, preserve_dataframe) ==
    IF sparse_output_
    THEN sparse_hstack(Xs)
    ELSE IF preserve_dataframe
            /\ ("Series" \in Types(Xs) \/ "DataFrame" \in Types(Xs))
    THEN pd_concat(Xs)
    ELSE np_hstack(Xs)

\* The entries the base class iterates over before fitting: the configured
\* ones, then the remainder when some column is left over.
ConfiguredEntries(cfg) ==
    IF cfg.n_remaining > 0
    THEN Append(cfg.transformers,
                [name |-> "remainder", trans |-> cfg.remainder,
                 ncols |-> cfg.n_remaining])
    ELSE cfg.transformers

\* _iter(replace_strings=True): 'drop' entries are skipped, and so are
\* estimators whose column selection is empty.
IterKeeps(e) ==
    \/ e.trans = "passthrough"
    \/ e.trans # "drop" /\ e.ncols > 0

_iter(entries) == SelectSeq(entries, IterKeeps)

\* ColumnTransformer._validate_output: the name of the first entry whose output
\* is neither 2-D nor a Series, "" when every output is accepted.
OutputAccepted(X) == X.ndim = 2 \/ X.kind = "Series"

\* Mutant of ValidationNames: the names of all fitted entries, the skipped
\* ones included.
ValidationNamesAll(fitted) == [i \in DOMAIN fitted |-> fitted[i].name]

ValidationNames(fitted) == [i \in DOMAIN _iter(fitted) |-> _iter(fitted)[i].name]

Min(a, b) == IF a < b THEN a ELSE b

_validate_output(result, fitted) ==
    LET names == ValidationNames(fitted)
        n == Min(Len(result), Len(names))
        bad == {i \in 1..n : ~OutputAccepted(result[i])}
    IN IF bad = {} THEN ""
       ELSE names[CHOOSE i \in bad : \A j \in bad : i <= j]

\* Outputs of the kept entries on x, in order.
EntryOutputs(entries, x) ==
    [i \in DOMAIN _iter(entries) |-> EntryOutput(_iter(entries)[i], x)]

\* The base class sets sparse_output_ from the outputs seen while fitting: true
\* iff some output is sparse and nnz / total < sparse_threshold.
RECURSIVE SumSize(_)
SumSize(Xs) ==
    IF Xs = <<>> THEN 0
    ELSE (IF Head(Xs).ndim = 1 THEN Head(Xs).rows
          ELSE Head(Xs).rows * Head(Xs).cols) + SumSize(Tail(Xs))

SparseOutput(Xs, threshold) ==
    /\ \E i \in DOMAIN Xs : Xs[i].kind = "sparse"
    /\ SumNnz(Xs) * 10 < threshold * SumSize(Xs)

\* _update_fitted_transformers: transformers_ lists every entry, in the order
\* of the configuration; the kept estimators are replaced by their fitted
\* clones, sentinels and unused estimators stay as configured.
FittedEntries(cfg) ==
    [i \in DOMAIN ConfiguredEntries(cfg) |->
        LET e == ConfiguredEntries(cfg)[i] IN
        [name |-> e.name, trans |-> e.trans, ncols |-> e.ncols]]

Zeros(x) == Container("ndarray", 2, x.rows, 0, 0)

Raised(outcome, culprit, tr, sp) ==
    [outcome |-> outcome, culprit |-> culprit, result |-> NoResult,
     transformers_ |-> tr, sparse_output_ |-> sp]

\* Validation and stacking of the outputs Xs, the common tail of the base
\* class's fit_transform and transform.
ValidateAndStack(Xs, tr, sp, cfg) ==
    LET culprit == _validate_output(Xs, tr) IN
    IF culprit # ""
    THEN Raised("ValueError", culprit, tr, sp)
    ELSE LET h == _hstack(Xs, sp = "True", cfg.preserve_dataframe) IN
         [outcome |-> h.outcome, culprit |-> "", result |-> h.result,
          transformers_ |-> tr, sparse_output_ |-> sp]

\* super().fit_transform(X, y) on x as handed over: every kept entry is
\* cloned, fitted and applied; with no output the result is an array of no columns;
\* otherwise sparse_output_ and transformers_ are set, then the outputs are
\* validated and stacked.  tr and sp are the attributes before the call.
SuperFitTransform(cfg, x, tr, sp) ==
    LET Xs == EntryOutputs(ConfiguredEntries(cfg), x)
    IN IF Xs = <<>>
       THEN [outcome |-> "ok", culprit |-> "", result |-> Zeros(x),
             transformers_ |-> FittedEntries(cfg), sparse_output_ |-> sp]
       ELSE ValidateAndStack(
                Xs, FittedEntries(cfg),
                IF SparseOutput(Xs, cfg.sparse_threshold) THEN "True" ELSE "False",
                cfg)

\* super().transform(X): the fitted entries transform x; the outputs are
\* validated and, unless there is none, stacked.
SuperTransform(cfg, x, tr, sp) ==
    LET Xs == EntryOutputs(tr, x) IN
    IF Xs = <<>>
    THEN [outcome |-> "ok", culprit |-> "", result |-> Zeros(x),
          transformers_ |-> tr, sparse_output_ |-> sp]
    ELSE ValidateAndStack(Xs, tr, sp, cfg)

Call(op, x, seen, r) ==
    [op |-> op, x |-> x, seen |-> seen, outcome |-> r.outcome,
     culprit |-> r.culprit, result |-> r.result]

\* Mutant of FitCall: _is_fitted is set before the base class is fitted.
FitCallMarkedFirst(x) ==
    IF check_X_raises(x)
    THEN /\ ct_last' = Call("fit", x, NoneSeen,
                            Raised("ValueError", "", ct_transformers_,
                                   ct_sparse_output_))
         /\ UNCHANGED <<ct_is_fitted, ct_transformers_, ct_sparse_output_,
                        ct_fit_done>>
    ELSE LET r == SuperFitTransform(ct_cfg, check_X_pandas(x),
                                    ct_transformers_, ct_sparse_output_)
         IN /\ ct_transformers_' = r.transformers_
            /\ ct_sparse_output_' = r.sparse_output_
            /\ ct_is_fitted' = TRUE
            /\ ct_fit_done' = (ct_fit_done \/ r.outcome = "ok")
            /\ ct_last' = Call("fit", x, check_X_pandas(x).form,
                               [r EXCEPT !.result = NoResult])

\* ColumnTransformer.fit: coerce X, fit the base class, mark fitted.
\* fit returns self, so the call has no result of its own.
FitCall(x) ==
    IF check_X_raises(x)
    THEN /\ ct_last' = Call("fit", x, NoneSeen,
                            Raised("ValueError", "", ct_transformers_,
                                   ct_sparse_output_))
         /\ UNCHANGED <<ct_is_fitted, ct_transformers_, ct_sparse_output_,
                        ct_fit_done>>
    ELSE LET r == SuperFitTransform(ct_cfg, check_X_pandas(x),
                                    ct_transformers_, ct_sparse_output_)
         IN /\ ct_transformers_' = r.transformers_
            /\ ct_sparse_output_' = r.sparse_output_
            /\ ct_is_fitted' = IF r.outcome = "ok" THEN TRUE ELSE ct_is_fitted
            /\ ct_fit_done' = (ct_fit_done \/ r.outcome = "ok")
            /\ ct_last' = Call("fit", x, check_X_pandas(x).form,
                               [r EXCEPT !.result = NoResult])

\* ColumnTransformer.transform: fitted check, coerce X, transform.
TransformCall(x) ==
    /\ ct_last' =
        IF check_is_fitted_raises(ct_is_fitted)
        THEN Call("transform", x, NoneSeen,
                  Raised("NotFittedError", "", ct_transformers_,
                         ct_sparse_output_))
        ELSE IF check_X_raises(x)
        THEN Call("transform", x, NoneSeen,
                  Raised("ValueError", "", ct_transformers_, ct_sparse_output_))
        ELSE Call("transform", x, check_X_pandas(x).form,
                  SuperTransform(ct_cfg, check_X_pandas(x), ct_transformers_,
                                 ct_sparse_output_))
    /\ UNCHANGED <<ct_is_fitted, ct_transformers_, ct_sparse_output_,
                   ct_fit_done>>

\* ColumnTransformer.fit_transform: the base class's fit_transform on X as
\* given, then mark fitted.
FitTransformCall(x) ==
    LET r == SuperFitTransform(ct_cfg, x, ct_transformers_, ct_sparse_output_)
    IN /\ ct_transformers_' = r.transformers_
       /\ ct_sparse_output_' = r.sparse_output_
       /\ ct_is_fitted' = IF r.outcome = "ok" THEN TRUE ELSE ct_is_fitted
       /\ ct_fit_done' = (ct_fit_done \/ r.outcome = "ok")
       /\ ct_last' = Call("fit_transform", x, x.form, r)

fit == \E x \in Inputs : FitCall(x) /\ UNCHANGED <<ct_cfg, cc_vars, rt_vars>>
transform == \E x \in Inputs : TransformCall(x) /\ UNCHANGED <<ct_cfg, cc_vars, rt_vars>>
fit_transform ==
    \E x \in Inputs : FitTransformCall(x) /\ UNCHANGED <<ct_cfg, cc_vars, rt_vars>>

\* ColumnTransformer.__init__
Entry(i, c) == [name |-> EntryName(i), trans |-> c[1], ncols |-> c[2]]

Configurations ==
    {[transformers |-> [i \in 1..n |-> Entry(i, cs[i])],
      remainder |-> rem[1], n_remaining |-> rem[2],
      sparse_threshold |-> thr, preserve_dataframe |-> pd] :
        n \in 1..MaxEntries, cs \in [1..MaxEntries -> EntryChoices],
        rem \in RemainderChoices,
        thr \in SparseThresholds, pd \in BOOLEAN}

NoCall ==
    [op |-> "none", x |-> [form |-> "nested", rows |-> 1], seen |-> NoneSeen,
     outcome |-> "none", culprit |-> "", result |-> NoResult]

NewColumnTransformer(cfg) ==
    /\ ct_cfg = cfg
    /\ ct_is_fitted = FALSE
    /\ ct_transformers_ = <<>>
    /\ ct_sparse_output_ = "unset"
    /\ ct_fit_done = FALSE
    /\ ct_last = NoCall

ColumnTransformerInit ==
    /\ \E cfg \in Configurations : NewColumnTransformer(cfg)
    /\ NewColumnConcatenator
    /\ NoRowTransformer

ColumnTransformerNext == fit \/ transform \/ fit_transform

SpecColumnTransformer ==
    ColumnTransformerInit /\ [][ColumnTransformerNext]_vars

\* A ColumnTransformer that is never called, for the other specifications.
IdleColumnTransformer ==
    NewColumnTransformer(CHOOSE cfg \in Configurations : TRUE)

ColumnConcatenatorInit ==
    /\ IdleColumnTransformer
    /\ NewColumnConcatenator
    /\ NoRowTransformer

ColumnConcatenatorNext == concatenator_fit \/ concatenator_transform

SpecColumnConcatenator ==
    ColumnConcatenatorInit /\ [][ColumnConcatenatorNext]_vars

RowTransformerInit ==
    /\ IdleColumnTransformer
    /\ NewColumnConcatenator
    /\ NoRowTransformer

RowTransformerNext == row_init \/ row_make \/ row_fit \/ row_transform

SpecRowTransformer == RowTransformerInit /\ [][RowTransformerNext]_vars

----------------------------------------------------------------------------
(* Claims about ColumnTransformer *)

\* The outputs the last call validated and stacked.
LastX == [form |-> ct_last.seen, rows |-> ct_last.x.rows]
LastXs == EntryOutputs(ct_transformers_, LastX)
Stacked ==
    /\ ct_last.op \in {"transform", "fit_transform"}
    /\ ct_last.seen # NoneSeen
    /\ LastXs # <<>>

\* C1: a transform call returns a result only after some fit or fit_transform
\* call returned normally, and fails with a not-fitted error without a result
\* before that; the object starts not fitted, and _is_fitted is true exactly
\* when some fit or fit_transform has returned normally (a raising one never
\* marks it fitted).
C1_TransformRequiresFit ==
    /\ ct_is_fitted = ct_fit_done
    /\ ct_last.op = "none" => ~ct_is_fitted
    /\ (ct_last.op = "transform" /\ ct_last.outcome # "NotFittedError")
           => ct_fit_done
    /\ (ct_last.op = "transform" /\ ~ct_fit_done)
           => ct_last.outcome = "NotFittedError" /\ ct_last.result = NoResult
    /\ (ct_last.op \in {"fit", "fit_transform"} /\ ct_last.outcome # "ok"
            /\ ~ct_fit_done) => ~ct_is_fitted

\* A fit has raised after setting transformers_, and the transform that
\* followed failed as not fitted.
C1_Witness ==
    /\ ct_last.op = "transform"
    /\ ct_last.outcome = "NotFittedError"
    /\ ct_transformers_ # <<>>
    /\ ~ct_is_fitted

\* What fit(X) followed by transform(X) does on a new object.
FitThenTransform(cfg, x) ==
    IF check_X_raises(x)
    THEN Raised("ValueError", "", <<>>, "unset")
    ELSE LET f == SuperFitTransform(cfg, check_X_pandas(x), <<>>, "unset") IN
         IF f.outcome # "ok" THEN f
         ELSE SuperTransform(cfg, check_X_pandas(x), f.transformers_,
                             f.sparse_output_)

\* C2: fit_transform(X, y) is fit(X, y) followed by transform(X): for every X,
\* coerced as fit coerces it, the call ends as fit then transform ends (it
\* raises when they raise), returns the output they return, and leaves the
\* object fitted when it returns.
C2_FitTransformIsFitThenTransform ==
    ct_last.op = "fit_transform" =>
        /\ ct_last.outcome = FitThenTransform(ct_cfg, ct_last.x).outcome
        /\ ct_last.result = FitThenTransform(ct_cfg, ct_last.x).result
        /\ ct_last.outcome = "ok" => ct_is_fitted

\* The last call reached _hstack.
HstackReached == Stacked /\ ct_last.culprit = ""

\* C3: the container _hstack returns follows a fixed precedence: sparse when
\* some output is sparse and the density is below sparse_threshold, whatever
\* preserve_dataframe and the other outputs are; else a DataFrame of all the
\* outputs as columns when preserve_dataframe is set and some output is a
\* Series or a DataFrame; else a dense 2-D array; always with the rows of the
\* outputs.
C3_HstackPrecedence ==
    HstackReached =>
        /\ ct_last.outcome = "ok"
        /\ ct_last.result.rows = ct_last.x.rows
        /\ ct_last.result.kind =
              IF (\E i \in DOMAIN LastXs : LastXs[i].kind = "sparse")
                 /\ SumNnz(LastXs) * 10 < ct_cfg.sparse_threshold * SumSize(LastXs)
              THEN "sparse"
              ELSE IF ct_cfg.preserve_dataframe
                      /\ \E i \in DOMAIN LastXs :
                             LastXs[i].kind \in {"Series", "DataFrame"}
              THEN "DataFrame"
              ELSE "ndarray"

\* The outputs that are neither 2-D nor a Series, and the calls that reached
\* _validate_output.
Offending(Xs) == {i \in DOMAIN Xs : ~(Xs[i].ndim = 2 \/ Xs[i].kind = "Series")}

Validated ==
    /\ ct_last.op \in {"fit", "transform", "fit_transform"}
    /\ ct_last.seen # NoneSeen
    /\ LastXs # <<>>

\* C10: _validate_output accepts the outputs only if each is 2-D or a Series,
\* and otherwise raises a ValueError naming the entry that produced the first
\* output that is neither.
C10_ValidateOutput ==
    Validated =>
        /\ ct_last.culprit = "" <=> Offending(LastXs) = {}
        /\ ct_last.culprit # "" =>
              /\ ct_last.outcome = "ValueError"
              /\ ct_last.result = NoResult
              /\ \E i \in Offending(LastXs) :
                    /\ \A j \in Offending(LastXs) : i <= j
                    /\ ct_last.culprit = LastXs[i].src

\* The offending output is the second one kept, and a dropped entry precedes
\* the entry that produced it.
C10_Witness ==
    /\ Validated
    /\ ct_last.culprit # ""
    /\ ct_transformers_[1].trans = "drop"
    /\ Len(LastXs) >= 2
    /\ ct_last.culprit = LastXs[2].src

----------------------------------------------------------------------------
(* Claims about ColumnConcatenator *)

\* C4: fit(X).transform(X) on a panel of N instances, D variables and series
\* of length T, nested or 3D, returns a nested panel of N rows and 1 column
\* whose cell i holds the D*T values of instance i, variable by variable and in
\* time order within a variable; transform before fit fails as not fitted.
C4_Concatenated ==
    cc_last.op = "transform" =>
        IF ~cc_is_fitted
        THEN cc_last.outcome = "NotFittedError" /\ cc_last.result = NoArray
        ELSE /\ cc_last.outcome = "ok"
             /\ cc_last.result.kind = "nested"
             /\ Len(cc_last.result.rows) = cc_last.X.n
             /\ \A i \in 1..cc_last.X.n :
                  /\ Len(cc_last.result.rows[i]) = 1
                  /\ Len(cc_last.result.rows[i][1]) = cc_last.X.d * cc_last.X.t
                  /\ \A v \in 1..cc_last.X.d, k \in 1..cc_last.X.t :
                        cc_last.result.rows[i][1][(v - 1) * cc_last.X.t + k]
                            = <<i, v, k>>

\* A fitted concatenator has transformed a 3D array of several instances,
\* variables and time points.
C4_Witness ==
    /\ cc_last.op = "transform"
    /\ cc_is_fitted
    /\ cc_last.outcome = "ok"
    /\ cc_last.X.form = "numpy3d"
    /\ cc_last.X.n > 1 /\ cc_last.X.d > 1 /\ cc_last.X.t > 1

----------------------------------------------------------------------------
(* Claims about the row transformers *)

\* The last call was a transform that got past _prepare.
Prepared ==
    /\ rt_last.op = "transform"
    /\ rt_last.outcome \notin {"NotFittedError", "TypeError"}

LastWidths ==
    {Width(rt_obj.transformer, Instance(rt_last.arg, i)) :
        i \in 1..Len(rt_last.arg.inst)}

\* C5: transform of either variant makes one clone of the template per
\* instance, fits and applies clone i to instance i only, in index order, never
\* fits the template, and returns N rows of which row i was computed from
\* instance i.
C5_RowOrder ==
    Prepared =>
        LET n == Len(rt_last.arg.inst) IN
        /\ Len(rt_transformer_) = n
        /\ \A i \in 1..n : rt_transformer_[i].fit_on \in {0, i}
        /\ \A i, j \in 1..n :
              (i < j /\ rt_transformer_[j].fit_on # 0)
                  => rt_transformer_[i].fit_on # 0
        /\ ~rt_template_fitted
        /\ rt_last.outcome = "ok" =>
              /\ \A i \in 1..n : rt_transformer_[i].fit_on = i
              /\ Len(rt_last.result.rows) = n
              /\ \A i \in 1..n :
                    /\ Len(rt_last.result.rows[i]) >= 1
                    /\ \A c \in DOMAIN rt_last.result.rows[i] :
                          rt_last.result.rows[i][c].src = i

\* A series-to-primitives transform of several instances has returned.
C5_Witness ==
    /\ Prepared
    /\ rt_last.outcome = "ok"
    /\ rt_obj.variant = "series-to-primitives"
    /\ Len(rt_last.arg.inst) > 1

\* C6: SeriesToPrimitivesRowTransformer.transform raises a shape error and
\* returns nothing whenever two instances' outputs differ in their number of
\* columns, also when one of them is a single value;
\* SeriesToSeriesRowTransformer.transform accepts such outputs.
C6_RaggedRaises ==
    Prepared =>
        /\ (rt_obj.variant = "series-to-primitives"
              /\ Cardinality(LastWidths) > 1)
             => rt_last.outcome = "ValueError" /\ rt_last.result = NoTable
        /\ rt_obj.variant = "series-to-series" => rt_last.outcome = "ok"

\* C7: when the template produces K values for every instance,
\* SeriesToPrimitivesRowTransformer.transform returns a table of N rows and K
\* columns, whatever the number of variables, whose entry (i, k) is the k-th
\* value produced for instance i.
C7_OneColumnPerValue ==
    (Prepared /\ rt_obj.variant = "series-to-primitives"
        /\ Cardinality(LastWidths) = 1) =>
        /\ rt_last.outcome = "ok"
        /\ Len(rt_last.result.rows) = Len(rt_last.arg.inst)
        /\ \A i \in DOMAIN rt_last.result.rows :
              /\ {Len(rt_last.result.rows[i])} = LastWidths
              /\ \A k \in DOMAIN rt_last.result.rows[i] :
                    rt_last.result.rows[i][k] = [src |-> i, k |-> k]

\* C8: make_row_transformer without transformer_type returns the
\* series-to-series variant for a series-to-series template, the
\* series-to-primitives variant for a series-to-primitives template (one that
\* is not a series-to-series template as well), and raises TypeError for any
\* other template; with transformer_type one of the two variants it returns
\* that variant whatever the template is, and with any other value it raises
\* ValueError; when it raises nothing is constructed.
C8_Factory ==
    rt_last.op = "make_row_transformer" =>
        LET caps == rt_last.arg.transformer.caps
            type == rt_last.arg.transformer_type
            made(v) == /\ rt_last.outcome = "ok"
                       /\ rt_obj.variant = v
                       /\ rt_obj.transformer = rt_last.arg.transformer
                       /\ rt_obj.check_transformer = rt_last.arg.check_transformer
            failed(e) == rt_last.outcome = e /\ rt_obj = NoObject
        IN CASE type = "None" /\ "series-to-series" \in caps ->
                    made("series-to-series")
             [] type = "None" /\ caps = {"series-to-primitives"} ->
                    made("series-to-primitives")
             [] type = "None" /\ caps = {} -> failed("TypeError")
             [] type \in Variants -> made(type)
             [] OTHER -> failed("ValueError")

\* transformer_type has forced the series-to-primitives variant on a
\* series-to-series template.
C8_Witness ==
    /\ rt_last.op = "make_row_transformer"
    /\ rt_last.arg.transformer_type = "series-to-primitives"
    /\ rt_last.arg.transformer.caps = {"series-to-series"}
    /\ rt_obj.variant = "series-to-primitives"

\* C9 as stated: constructing a row transformer raises the type-mismatch error
\* exactly when check_transformer is set and the template lacks the capability
\* of the variant.
C9_CheckedAtConstruction ==
    rt_last.op = "__init__" =>
        (rt_last.outcome = "TypeError"
            <=> (rt_obj.check_transformer
                    /\ rt_obj.variant \notin rt_obj.transformer.caps))

\* C9, amended: construction never raises; transform raises the type-mismatch
\* error exactly when the row transformer is fitted, check_transformer is set
\* and the template lacks the capability of the variant (when it is not
\* fitted the not-fitted error is raised instead); with check_transformer off
\* the error is never raised; when it is raised no clone exists, the template
\* is not fitted and nothing is returned.
C9_CheckedInTransform ==
    /\ rt_last.op = "__init__" => rt_last.outcome = "ok" /\ rt_obj # NoObject
    /\ rt_last.op = "transform" =>
          /\ rt_last.outcome = "TypeError"
                <=> (/\ rt_is_fitted
                     /\ rt_obj.check_transformer
                     /\ rt_obj.variant \notin rt_obj.transformer.caps)
          /\ ~rt_is_fitted => rt_last.outcome = "NotFittedError"
          /\ rt_last.outcome = "TypeError" =>
                /\ rt_transformer_ = <<>>
                /\ ~rt_template_fitted
                /\ rt_last.result = NoTable
    /\ (rt_last.op \in {"__init__", "fit", "transform"}
          /\ ~rt_obj.check_transformer) => rt_last.outcome # "TypeError"

\* A fitted row transformer whose template lacks the capability has raised
\* the type-mismatch error in transform.
C9_Witness ==
    /\ rt_last.op = "transform"
    /\ rt_is_fitted
    /\ rt_last.outcome = "TypeError"

====
